---- MODULE Spec2Model ----
(***************************************************************************)
(* Tenant-scoped authorization of the multi-tenant platform API.           *)
(*                                                                         *)
(* The state is the content of the four tables (tenants, users,            *)
(* competitions, competition_allowed_schools) and the HTTP exchange being  *)
(* served.  Every route is one action that runs the Fastify lifecycle of   *)
(* the route in order: the global onRequest hook (authPlugin), the route   *)
(* group's onRequest hook, preValidation, body-schema validation,          *)
(* preHandler and the handler with its store calls.                        *)
(*                                                                         *)
(* Abstractions: ids are small integers instead of uuids; the columns      *)
(* email, title, description, name and created_at, which no guard reads,   *)
(* are left out; store failures other than constraint violations are not   *)
(* modelled; an id freed by a delete may be handed out again by a later    *)
(* insert.                                                                 *)
(***************************************************************************)
EXTENDS Integers, FiniteSets, TLC

VARIABLES tenants, users, competitions, grants, req

vars == <<tenants, users, competitions, grants, req>>

\* ---------------------------------------------------------------- bounds
MaxTenants == 2
MaxUsers == 2
MaxCompetitions == 2
\* Requests served at the same time, where handlers interleave.
MaxInFlight == 2

TenantIds == 1..MaxTenants
UserIds == 1..MaxUsers
CompIds == 1..MaxCompetitions
Handlers == 1..MaxInFlight

\* ------------------------------------------------------------ vocabulary
\* SQL NULL, a JSON field left out of a body, an undefined property.
NULL == 0

Roles == {"student", "school_admin", "superuser"}
Visibilities == {"public", "private", "restricted"}

\* A body field of type string that the request leaves out.
Absent == "absent"

\* request.user after decorateRequest('user', null): every request.user?.x
\* is undefined and equals no id and no role.
NoUser == [id |-> NULL, role |-> "none", tenant_id |-> NULL]

\* The tables as one value, for the operators that read them.
DB == [tenants |-> tenants, users |-> users,
       competitions |-> competitions, grants |-> grants]

\* ------------------------------------------------------------ requests
\* A bearer credential: none, a token that fails jwt.verify, or a verified
\* token with its sub claim and the role and tenant_id of its user_metadata,
\* which the API never compares with the users row of sub.
NoToken == [kind |-> "none", sub |-> NULL, role |-> "none", tenant_id |-> NULL]
BadToken == [kind |-> "invalid", sub |-> NULL, role |-> "none", tenant_id |-> NULL]
Tokens == [kind : {"jwt"}, sub : UserIds, role : Roles, tenant_id : TenantIds]

\* The request URL: the route group of its path, whether it contains one of
\* the substrings of the auth skip list (for instance in its query string,
\* ?next=/docs), and its tenantId query parameter.
PlainUrl(group) == [group |-> group, marker |-> FALSE, tenantId |-> NULL]
MarkedUrl(group) == [group |-> group, marker |-> TRUE, tenantId |-> NULL]
QueryUrl(group, t) == [group |-> group, marker |-> FALSE, tenantId |-> t]

\* Credential and URL pairs the routes are exercised with.
Callers(group) ==
    {<<c, PlainUrl(group)>> : c \in Tokens \cup {NoToken, BadToken}}
        \cup {<<NoToken, MarkedUrl(group)>>}

\* The same with a tenantId query parameter, for the routes that run
\* enforceTenantId.
CallersQ(group) ==
    Callers(group)
        \cup {<<c, QueryUrl(group, t)>> : c \in Tokens, t \in TenantIds}

NoBody == [role |-> Absent, tenant_id |-> NULL, visibility |-> Absent,
           competition_id |-> NULL, school_id |-> NULL]

\* ------------------------------------------------------- auth middleware
\* authPlugin's onRequest hook.  status 0: the hook returned without a
\* reply and the lifecycle continues with request.user = user.
authPlugin(cred, url, db) ==
    IF url.marker
    THEN [status |-> 0, user |-> NoUser]
    ELSE IF cred.kind = "none"
    THEN [status |-> 401, user |-> NoUser]
    ELSE IF cred.kind = "invalid"
    THEN [status |-> 401, user |-> NoUser]
    ELSE LET isTenantRequired == url.group # "tenants"
             row == IF cred.sub \in DOMAIN db.users
                    THEN db.users[cred.sub].tenant_id ELSE NULL
         IN  IF cred.tenant_id = NULL /\ isTenantRequired
             THEN IF row # NULL
                  THEN [status |-> 0,
                        user |-> [id |-> cred.sub, role |-> cred.role,
                                  tenant_id |-> row]]
                  ELSE [status |-> 403, user |-> NoUser]
             ELSE [status |-> 0,
                   user |-> [id |-> cred.sub, role |-> cred.role,
                             tenant_id |-> cred.tenant_id]]

\* enforceTenantId: the reply status (0: none) and the body it leaves.
\* hasBody is FALSE where the hook runs before the body is parsed.
enforceTenantId(user, method, requestTenantId, hasBody, body) ==
    IF user.role = "superuser"
    THEN [status |-> 0, body |-> body]
    ELSE IF requestTenantId # NULL /\ requestTenantId # user.tenant_id
    THEN [status |-> 403, body |-> body]
    ELSE IF method # "GET" /\ hasBody
    THEN [status |-> 0, body |-> [body EXCEPT !.tenant_id = user.tenant_id]]
    ELSE [status |-> 0, body |-> body]

requireRole(allowedRoles, user) ==
    IF user = NoUser THEN 401
    ELSE IF user.role \notin allowedRoles THEN 403
    ELSE 0

\* ------------------------------------------------------------ the store
\* What a handler leaves: the reply status, the ids of the rows it sends
\* and the tables.
Result(status, data, db) == [status |-> status, data |-> data, db |-> db]

\* A hook replied: nothing after it runs.
Rejected(status, db) == Result(status, {}, db)

\* The first reply status (non-zero) of a sequence of hooks, 0 if none.
First2(a, b) == IF a # 0 THEN a ELSE b
First3(a, b, c) == First2(a, First2(b, c))
First4(a, b, c, d) == First2(a, First3(b, c, d))

\* The smallest id no row of the table uses (NULL: the table is at its
\* bound), standing for the uuid the insert's default generates.
FreshId(ids, used) ==
    IF ids \subseteq used THEN NULL
    ELSE CHOOSE i \in ids \ used : \A j \in ids \ used : i <= j

\* insert(row) and delete().eq('id', id) on a table keyed by id.
InsertRow(table, id, row) ==
    [i \in DOMAIN table \cup {id} |-> IF i = id THEN row ELSE table[i]]

DeleteRow(table, id) == [i \in DOMAIN table \ {id} |-> table[i]]

\* -------------------------------------------------------------- /users
UserBodies ==
    {[NoBody EXCEPT !.role = r, !.tenant_id = t] :
        r \in Roles \cup {Absent}, t \in TenantIds \cup {NULL}}

\* The tenant_id a select('tenant_id').eq('id', id).single() yields:
\* data?.tenant_id is undefined when no row matches.
UserTenantOf(db, id) ==
    IF id \in DOMAIN db.users THEN db.users[id].tenant_id ELSE NULL

\* GET /users preHandler and handler.
UsersGetAll(cred, url, db) ==
    LET a == authPlugin(cred, url, db)
        e == enforceTenantId(a.user, "GET", url.tenantId, FALSE, NoBody)
        s == First3(a.status, e.status, requireRole({"superuser"}, a.user))
    IN  IF s # 0 THEN Rejected(s, db)
        ELSE Result(200, DOMAIN db.users, db)

\* A GET /users/:id preHandler that lets a school admin read every user.
UsersGetPreHandlerAnyTenant(user, id, db) ==
    IF id = user.id THEN 0
    ELSE IF user.role = "school_admin" THEN 0
    ELSE IF user.role = "superuser" THEN 0
    ELSE 403

\* GET /users/:id preHandler.
UsersGetPreHandler(user, id, db) ==
    IF id = user.id THEN 0
    ELSE IF user.role = "school_admin"
            /\ UserTenantOf(db, id) = user.tenant_id THEN 0
    ELSE IF user.role = "superuser" THEN 0
    ELSE 403

UsersGet(cred, url, id, db) ==
    LET a == authPlugin(cred, url, db)
        e == enforceTenantId(a.user, "GET", url.tenantId, FALSE, NoBody)
        s == First3(a.status, e.status, UsersGetPreHandler(a.user, id, db))
    IN  IF s # 0 THEN Rejected(s, db)
        ELSE IF id \notin DOMAIN db.users THEN Result(404, {}, db)
        ELSE Result(200, {id}, db)

\* POST /users body schema: email, tenant_id and role are required and
\* role is one of school_admin, student.
UsersPostSchema(body) ==
    IF body.tenant_id # NULL /\ body.role \in {"school_admin", "student"}
    THEN 0 ELSE 400

\* A POST /users preHandler that checks the tenant of a school admin's
\* body and nothing else.
UsersPostPreHandlerTenantOnly(user, body) ==
    IF user.role = "school_admin" /\ body.tenant_id # user.tenant_id THEN 403
    ELSE 0

\* POST /users preHandler.
UsersPostPreHandler(user, body) ==
    IF user.role = "school_admin" /\ body.tenant_id # user.tenant_id THEN 403
    ELSE IF user.role = "school_admin" /\ body.role = "superuser" THEN 403
    ELSE IF body.role = "superuser" /\ user.role # "superuser" THEN 403
    ELSE 0

\* POST /users handler: the insert fails on the foreign key of tenant_id.
UsersPostHandler(body, db) ==
    LET id == FreshId(UserIds, DOMAIN db.users)
    IN  IF body.tenant_id \notin db.tenants THEN Result(500, {}, db)
        ELSE IF id = NULL THEN Result(0, {}, db)   \* at the bound: not served
        ELSE Result(201, {id},
                    [db EXCEPT !.users = InsertRow(db.users, id,
                        [role |-> body.role, tenant_id |-> body.tenant_id])])

UsersPost(cred, url, body, db) ==
    LET a == authPlugin(cred, url, db)
        e == enforceTenantId(a.user, "POST", url.tenantId, FALSE, body)
        s == First4(a.status, e.status, UsersPostSchema(body),
                    UsersPostPreHandler(a.user, body))
    IN  IF s # 0 THEN Rejected(s, db) ELSE UsersPostHandler(body, db)

\* PUT /users/:id body schema: role, when given, is school_admin or student.
UsersPutSchema(body) ==
    IF body.role \in {Absent, "school_admin", "student"} THEN 0 ELSE 400

\* A PUT /users/:id preHandler whose self-update branch looks at role alone.
UsersPutPreHandlerRoleOnly(user, id, body, db) ==
    IF id = user.id
    THEN IF body.role # Absent THEN 403 ELSE 0
    ELSE LET admin ==
                 IF user.role # "school_admin" THEN 0
                 ELSE IF id \notin DOMAIN db.users
                         \/ db.users[id].tenant_id # user.tenant_id THEN 403
                 ELSE IF db.users[id].role = "superuser"
                         \/ body.role = "superuser" THEN 403
                 ELSE IF body.tenant_id # NULL
                         /\ body.tenant_id # user.tenant_id THEN 403
                 ELSE 0
         IN  IF admin # 0 THEN admin
             ELSE IF user.role # "superuser" THEN 403
             ELSE 0

\* PUT /users/:id preHandler.
UsersPutPreHandler(user, id, body, db) ==
    IF id = user.id
    THEN IF body.role # Absent \/ body.tenant_id # NULL THEN 403 ELSE 0
    ELSE LET admin ==
                 IF user.role # "school_admin" THEN 0
                 ELSE IF id \notin DOMAIN db.users
                         \/ db.users[id].tenant_id # user.tenant_id THEN 403
                 ELSE IF db.users[id].role = "superuser"
                         \/ body.role = "superuser" THEN 403
                 ELSE IF body.tenant_id # NULL
                         /\ body.tenant_id # user.tenant_id THEN 403
                 ELSE 0
         IN  IF admin # 0 THEN admin
             ELSE IF user.role # "superuser" THEN 403
             ELSE 0

\* The row an update(updateData) leaves: the fields of the body replace
\* the row's.
UserUpdated(row, body) ==
    [role |-> IF body.role # Absent THEN body.role ELSE row.role,
     tenant_id |-> IF body.tenant_id # NULL THEN body.tenant_id
                   ELSE row.tenant_id]

\* PUT /users/:id handler: no row matched is PGRST116 (404); a tenant_id
\* naming no tenant fails the foreign key (500).
UsersPutHandler(id, body, db) ==
    IF id \notin DOMAIN db.users THEN Result(404, {}, db)
    ELSE IF body.tenant_id # NULL /\ body.tenant_id \notin db.tenants
    THEN Result(500, {}, db)
    ELSE Result(200, {id},
                [db EXCEPT !.users[id] = UserUpdated(db.users[id], body)])

UsersPut(cred, url, id, body, db) ==
    LET a == authPlugin(cred, url, db)
        e == enforceTenantId(a.user, "PUT", url.tenantId, FALSE, body)
        s == First4(a.status, e.status, UsersPutSchema(body),
                    UsersPutPreHandler(a.user, id, body, db))
    IN  IF s # 0 THEN Rejected(s, db) ELSE UsersPutHandler(id, body, db)

\* A DELETE /users/:id preHandler that does not look at the target's role.
UsersDeletePreHandlerAnyRole(user, id, db) ==
    IF id = user.id THEN 403
    ELSE IF user.role = "school_admin"
    THEN IF id \notin DOMAIN db.users
            \/ db.users[id].tenant_id # user.tenant_id THEN 403
         ELSE 0
    ELSE IF user.role # "superuser" THEN 403
    ELSE 0

\* DELETE /users/:id preHandler.
UsersDeletePreHandler(user, id, db) ==
    IF id = user.id THEN 403
    ELSE IF user.role = "school_admin"
    THEN IF id \notin DOMAIN db.users
            \/ db.users[id].tenant_id # user.tenant_id THEN 403
         ELSE IF db.users[id].role = "superuser" THEN 403
         ELSE 0
    ELSE IF user.role # "superuser" THEN 403
    ELSE 0

\* DELETE /users/:id handler: a delete that matches no row is no error.
UsersDeleteHandler(id, db) ==
    Result(204, {}, [db EXCEPT !.users = DeleteRow(db.users, id)])

UsersDelete(cred, url, id, db) ==
    LET a == authPlugin(cred, url, db)
        e == enforceTenantId(a.user, "DELETE", url.tenantId, FALSE, NoBody)
        s == First3(a.status, e.status, UsersDeletePreHandler(a.user, id, db))
    IN  IF s # 0 THEN Rejected(s, db) ELSE UsersDeleteHandler(id, db)

\* GET /users/tenant/:tenantId preHandler.
UsersByTenantPreHandler(user, tenantId) ==
    IF user.role = "school_admin" /\ tenantId # user.tenant_id THEN 403
    ELSE IF user.role = "student" THEN 403
    ELSE 0

\* GET /users/tenant/:tenantId: the path parameter is the tenantId that
\* enforceTenantId reads.
UsersByTenant(cred, url, tenantId, db) ==
    LET a == authPlugin(cred, url, db)
        e == enforceTenantId(a.user, "GET", tenantId, FALSE, NoBody)
        s == First3(a.status, e.status,
                    UsersByTenantPreHandler(a.user, tenantId))
    IN  IF s # 0 THEN Rejected(s, db)
        ELSE Result(200,
                    {u \in DOMAIN db.users : db.users[u].tenant_id = tenantId},
                    db)


\* -------------------------------------------------------- /competitions
CompBodies ==
    {[NoBody EXCEPT !.visibility = v, !.tenant_id = t] :
        v \in Visibilities \cup {Absent}, t \in TenantIds \cup {NULL}}

HasGrant(db, c, t) == <<c, t>> \in db.grants

\* GET /competitions: no guard, select('*').
CompetitionsGetAll(cred, url, db) ==
    LET a == authPlugin(cred, url, db)
    IN  IF a.status # 0 THEN Rejected(a.status, db)
        ELSE Result(200, DOMAIN db.competitions, db)

\* A GET /competitions/:id preHandler without the rule for public
\* competitions.
CompetitionsGetPreHandlerNoPublic(user, id, db) ==
    IF user.role = "superuser" THEN 0
    ELSE IF id \notin DOMAIN db.competitions THEN 0
    ELSE LET competition == db.competitions[id]
         IN  IF user.role = "school_admin"
                /\ competition.tenant_id = user.tenant_id THEN 0
             ELSE IF competition.tenant_id = user.tenant_id THEN 0
             ELSE IF competition.visibility = "restricted"
                     /\ HasGrant(db, id, user.tenant_id) THEN 0
             ELSE 403

\* A GET /competitions/:id preHandler that honours a grant whatever the
\* competition's visibility.
CompetitionsGetPreHandlerAnyGrant(user, id, db) ==
    IF user.role = "superuser" THEN 0
    ELSE IF id \notin DOMAIN db.competitions THEN 0
    ELSE LET competition == db.competitions[id]
         IN  IF user.role = "school_admin"
                /\ competition.tenant_id = user.tenant_id THEN 0
             ELSE IF competition.visibility = "public" THEN 0
             ELSE IF competition.tenant_id = user.tenant_id THEN 0
             ELSE IF HasGrant(db, id, user.tenant_id) THEN 0
             ELSE 403

\* GET /competitions/:id preHandler.
CompetitionsGetPreHandler(user, id, db) ==
    IF user.role = "superuser" THEN 0
    ELSE IF id \notin DOMAIN db.competitions THEN 0
    ELSE LET competition == db.competitions[id]
         IN  IF user.role = "school_admin"
                /\ competition.tenant_id = user.tenant_id THEN 0
             ELSE IF competition.visibility = "public" THEN 0
             ELSE IF competition.tenant_id = user.tenant_id THEN 0
             ELSE IF competition.visibility = "restricted"
                     /\ HasGrant(db, id, user.tenant_id) THEN 0
             ELSE 403

CompetitionsGet(cred, url, id, db) ==
    LET a == authPlugin(cred, url, db)
        s == First2(a.status, CompetitionsGetPreHandler(a.user, id, db))
    IN  IF s # 0 THEN Rejected(s, db)
        ELSE IF id \notin DOMAIN db.competitions THEN Result(404, {}, db)
        ELSE Result(200, {id}, db)

\* A POST /competitions preValidation without the check of the role.
CompetitionsPostPreValidationAnyRole(user, body) ==
    IF user.role # "superuser" /\ body.tenant_id # user.tenant_id THEN 403
    ELSE 0

\* POST /competitions preValidation.
CompetitionsPostPreValidation(user, body) ==
    IF user.role # "superuser" /\ body.tenant_id # user.tenant_id THEN 403
    ELSE IF user.role # "school_admin" /\ user.role # "superuser" THEN 403
    ELSE 0

\* POST /competitions body schema: title and tenant_id are required.
CompetitionsPostSchema(body) == IF body.tenant_id # NULL THEN 0 ELSE 400

\* POST /competitions handler: visibility || 'private'; the insert fails
\* on the foreign key of tenant_id.
CompetitionsPostHandler(body, db) ==
    LET id == FreshId(CompIds, DOMAIN db.competitions)
        visibility == IF body.visibility # Absent THEN body.visibility
                      ELSE "private"
    IN  IF body.tenant_id \notin db.tenants THEN Result(500, {}, db)
        ELSE IF id = NULL THEN Result(0, {}, db)   \* at the bound: not served
        ELSE Result(201, {id},
                    [db EXCEPT !.competitions = InsertRow(db.competitions, id,
                        [visibility |-> visibility,
                         tenant_id |-> body.tenant_id])])

\* POST /competitions: preValidation, the body schema, then the
\* preHandler enforceTenantId, which rewrites the parsed body.
CompetitionsPost(cred, url, body, db) ==
    LET a == authPlugin(cred, url, db)
        e == enforceTenantId(a.user, "POST", url.tenantId, TRUE, body)
        s == First4(a.status, CompetitionsPostPreValidation(a.user, body),
                    CompetitionsPostSchema(body), e.status)
    IN  IF s # 0 THEN Rejected(s, db) ELSE CompetitionsPostHandler(e.body, db)

\* A PUT /competitions/:id preValidation without the check of the body's
\* tenant_id.
CompetitionsPutPreValidationAnyTenant(user, id, body, db) ==
    IF id \notin DOMAIN db.competitions THEN 0
    ELSE LET competition == db.competitions[id]
         IN  IF user.role = "school_admin"
                /\ competition.tenant_id # user.tenant_id THEN 403
             ELSE IF user.role = "student" THEN 403
             ELSE 0

\* PUT /competitions/:id preValidation.
CompetitionsPutPreValidation(user, id, body, db) ==
    IF id \notin DOMAIN db.competitions THEN 0
    ELSE LET competition == db.competitions[id]
         IN  IF user.role = "school_admin"
                /\ competition.tenant_id # user.tenant_id THEN 403
             ELSE IF user.role = "student" THEN 403
             ELSE IF body.tenant_id # NULL
                     /\ body.tenant_id # competition.tenant_id THEN 403
             ELSE 0

CompetitionUpdated(row, body) ==
    [visibility |-> IF body.visibility # Absent THEN body.visibility
                    ELSE row.visibility,
     tenant_id |-> IF body.tenant_id # NULL THEN body.tenant_id
                   ELSE row.tenant_id]

\* PUT /competitions/:id handler: update(updateData).eq('id', id).
CompetitionsPutHandler(id, body, db) ==
    IF id \notin DOMAIN db.competitions THEN Result(404, {}, db)
    ELSE IF body.tenant_id # NULL /\ body.tenant_id \notin db.tenants
    THEN Result(500, {}, db)
    ELSE Result(200, {id},
                [db EXCEPT !.competitions[id] =
                    CompetitionUpdated(db.competitions[id], body)])

CompetitionsPut(cred, url, id, body, db) ==
    LET a == authPlugin(cred, url, db)
        e == enforceTenantId(a.user, "PUT", url.tenantId, TRUE, body)
        s == First3(a.status,
                    CompetitionsPutPreValidation(a.user, id, body, db),
                    e.status)
    IN  IF s # 0 THEN Rejected(s, db) ELSE CompetitionsPutHandler(id, e.body, db)

\* A DELETE /competitions/:id preHandler that lets every school admin by.
CompetitionsDeletePreHandlerAnyAdmin(user, id, db) ==
    IF user.role = "superuser" THEN 0
    ELSE IF id \notin DOMAIN db.competitions THEN 0
    ELSE IF user.role = "student" THEN 403
    ELSE 0

\* DELETE /competitions/:id preHandler.
CompetitionsDeletePreHandler(user, id, db) ==
    IF user.role = "superuser" THEN 0
    ELSE IF id \notin DOMAIN db.competitions THEN 0
    ELSE IF user.role = "school_admin"
            /\ db.competitions[id].tenant_id # user.tenant_id THEN 403
    ELSE IF user.role = "student" THEN 403
    ELSE 0

\* DELETE /competitions/:id handler; competition_allowed_schools rows go
\* with their competition (on delete cascade).
CompetitionsDeleteHandler(id, db) ==
    Result(204, {},
           [db EXCEPT !.competitions = DeleteRow(db.competitions, id),
                      !.grants = {g \in db.grants : g[1] # id}])

CompetitionsDelete(cred, url, id, db) ==
    LET a == authPlugin(cred, url, db)
        s == First2(a.status, CompetitionsDeletePreHandler(a.user, id, db))
    IN  IF s # 0 THEN Rejected(s, db) ELSE CompetitionsDeleteHandler(id, db)

\* GET /competitions/tenant/:tenantId preHandler: both tenant-mismatch
\* replies are commented out, so nothing is ever replied here.
CompetitionsByTenantPreHandler(user, tenantId) == 0

CompetitionsByTenant(cred, url, tenantId, db) ==
    LET a == authPlugin(cred, url, db)
        s == First2(a.status, CompetitionsByTenantPreHandler(a.user, tenantId))
    IN  IF s # 0 THEN Rejected(s, db)
        ELSE Result(200,
                    {c \in DOMAIN db.competitions :
                        db.competitions[c].tenant_id = tenantId},
                    db)

\* GET /competitions/visibility/public.
CompetitionsPublic(cred, url, db) ==
    LET a == authPlugin(cred, url, db)
    IN  IF a.status # 0 THEN Rejected(a.status, db)
        ELSE Result(200,
                    {c \in DOMAIN db.competitions :
                        db.competitions[c].visibility = "public"},
                    db)


\* ------------------------------------------ /competition-allowed-schools
GrantBodies ==
    {[NoBody EXCEPT !.competition_id = c, !.school_id = t] :
        c \in CompIds \cup {NULL}, t \in TenantIds \cup {NULL}}

\* GET /competition-allowed-schools.
GrantsGetAll(cred, url, db) ==
    LET a == authPlugin(cred, url, db)
        s == First2(a.status, requireRole({"superuser"}, a.user))
    IN  IF s # 0 THEN Rejected(s, db) ELSE Result(200, db.grants, db)

\* GET /competition-allowed-schools/competition/:competitionId preHandler.
GrantsByCompetitionPreHandler(user, competitionId, db) ==
    IF user.role = "superuser" THEN 0
    ELSE IF competitionId \notin DOMAIN db.competitions THEN 0
    ELSE LET competition == db.competitions[competitionId]
         IN  IF user.role = "school_admin"
                /\ competition.tenant_id = user.tenant_id THEN 0
             ELSE IF competition.visibility = "restricted"
                     /\ HasGrant(db, competitionId, user.tenant_id) THEN 0
             ELSE IF competition.visibility = "public" THEN 0
             ELSE IF competition.tenant_id = user.tenant_id THEN 0
             ELSE 403

\* Its handler sends the tenants rows of the schools granted.
GrantsByCompetition(cred, url, competitionId, db) ==
    LET a == authPlugin(cred, url, db)
        s == First2(a.status,
                    GrantsByCompetitionPreHandler(a.user, competitionId, db))
    IN  IF s # 0 THEN Rejected(s, db)
        ELSE Result(200,
                    {t \in db.tenants : HasGrant(db, competitionId, t)}, db)

\* GET /competition-allowed-schools/school/:schoolId preHandler: the
\* tenant-mismatch reply is commented out.
GrantsBySchoolPreHandler(user, schoolId) == 0

\* Its handler: the three selects, concatenated and made unique by id.
publicCompetitions(db) ==
    {c \in DOMAIN db.competitions : db.competitions[c].visibility = "public"}

ownedRestrictedCompetitions(db, schoolId) ==
    {c \in DOMAIN db.competitions :
        /\ db.competitions[c].tenant_id = schoolId
        /\ db.competitions[c].visibility = "restricted"}

allowedCompetitions(db, schoolId) ==
    {c \in DOMAIN db.competitions :
        /\ HasGrant(db, c, schoolId)
        /\ db.competitions[c].tenant_id # schoolId}

uniqueCompetitions(db, schoolId) ==
    publicCompetitions(db) \cup ownedRestrictedCompetitions(db, schoolId)
        \cup allowedCompetitions(db, schoolId)

GrantsBySchool(cred, url, schoolId, db) ==
    LET a == authPlugin(cred, url, db)
        s == First2(a.status, GrantsBySchoolPreHandler(a.user, schoolId))
    IN  IF s # 0 THEN Rejected(s, db)
        ELSE Result(200, uniqueCompetitions(db, schoolId), db)

\* POST /competition-allowed-schools body schema: both ids are required.
GrantsPostSchema(body) ==
    IF body.competition_id # NULL /\ body.school_id # NULL THEN 0 ELSE 400

\* A POST /competition-allowed-schools preHandler that leaves the
\* competition's visibility as it is.
GrantsPostPreHandlerKeepsVisibility(user, body, db) ==
    LET c == body.competition_id
    IN  IF user.role = "superuser" THEN [status |-> 0, db |-> db]
        ELSE IF user.role = "school_admin"
        THEN IF c \notin DOMAIN db.competitions
                \/ db.competitions[c].tenant_id # user.tenant_id
             THEN [status |-> 403, db |-> db]
             ELSE [status |-> 0, db |-> db]
        ELSE [status |-> 403, db |-> db]

\* A POST /competition-allowed-schools preHandler that asks a school admin
\* only that the competition exists.
GrantsPostPreHandlerAnyAdmin(user, body, db) ==
    LET c == body.competition_id
    IN  IF user.role = "superuser" THEN [status |-> 0, db |-> db]
        ELSE IF user.role = "school_admin"
        THEN IF c \notin DOMAIN db.competitions
             THEN [status |-> 403, db |-> db]
             ELSE [status |-> 0,
                   db |-> [db EXCEPT !.competitions[c].visibility =
                                         "restricted"]]
        ELSE [status |-> 403, db |-> db]

\* POST /competition-allowed-schools preHandler: the reply status and the
\* tables it leaves (a school_admin's pass sets the competition's
\* visibility before the handler runs).
GrantsPostPreHandler(user, body, db) ==
    LET c == body.competition_id
    IN  IF user.role = "superuser" THEN [status |-> 0, db |-> db]
        ELSE IF user.role = "school_admin"
        THEN IF c \notin DOMAIN db.competitions
                \/ db.competitions[c].tenant_id # user.tenant_id
             THEN [status |-> 403, db |-> db]
             ELSE [status |-> 0,
                   db |-> [db EXCEPT !.competitions[c].visibility =
                                         "restricted"]]
        ELSE [status |-> 403, db |-> db]

\* Its handler: the insert fails on either foreign key and on the
\* primary key (competition_id, school_id).
GrantsPostHandler(body, db) ==
    LET g == <<body.competition_id, body.school_id>>
    IN  IF \/ body.competition_id \notin DOMAIN db.competitions
           \/ body.school_id \notin db.tenants
           \/ g \in db.grants
        THEN Result(500, {}, db)
        ELSE Result(201, {g}, [db EXCEPT !.grants = db.grants \cup {g}])

GrantsPost(cred, url, body, db) ==
    LET a == authPlugin(cred, url, db)
        s == First2(a.status, GrantsPostSchema(body))
        p == GrantsPostPreHandler(a.user, body, db)
    IN  IF s # 0 THEN Rejected(s, db)
        ELSE IF p.status # 0 THEN Rejected(p.status, p.db)
        ELSE GrantsPostHandler(body, p.db)

\* A DELETE /competition-allowed-schools preHandler open to school admins
\* alone.
GrantsDeletePreHandlerAdminsOnly(user, competitionId, db) ==
    IF user.role = "school_admin"
    THEN IF competitionId \notin DOMAIN db.competitions
            \/ db.competitions[competitionId].tenant_id # user.tenant_id
         THEN 403 ELSE 0
    ELSE 403

\* DELETE /competition-allowed-schools/:competitionId/:schoolId preHandler.
GrantsDeletePreHandler(user, competitionId, db) ==
    IF user.role = "superuser" THEN 0
    ELSE IF user.role = "school_admin"
    THEN IF competitionId \notin DOMAIN db.competitions
            \/ db.competitions[competitionId].tenant_id # user.tenant_id
         THEN 403 ELSE 0
    ELSE 403

GrantsDeleteHandler(competitionId, schoolId, db) ==
    Result(204, {},
           [db EXCEPT !.grants = db.grants \ {<<competitionId, schoolId>>}])

GrantsDelete(cred, url, competitionId, schoolId, db) ==
    LET a == authPlugin(cred, url, db)
        s == First2(a.status,
                    GrantsDeletePreHandler(a.user, competitionId, db))
    IN  IF s # 0 THEN Rejected(s, db)
        ELSE GrantsDeleteHandler(competitionId, schoolId, db)

\* ------------------------------------------------------------- /tenants
\* GET /tenants.
TenantsGetAll(cred, url, db) ==
    LET a == authPlugin(cred, url, db)
        s == First2(a.status, requireRole({"superuser"}, a.user))
    IN  IF s # 0 THEN Rejected(s, db) ELSE Result(200, db.tenants, db)

\* A GET /tenants/:id preHandler that lets every school admin by.
TenantsGetPreHandlerAnyAdmin(user, id) ==
    IF user.role = "superuser" THEN 0
    ELSE IF user.role = "school_admin" THEN 0
    ELSE IF id = user.tenant_id THEN 0
    ELSE 403

\* GET /tenants/:id preHandler.
TenantsGetPreHandler(user, id) ==
    IF user.role = "superuser" THEN 0
    ELSE IF id = user.tenant_id THEN 0
    ELSE 403

TenantsGet(cred, url, id, db) ==
    LET a == authPlugin(cred, url, db)
        s == First2(a.status, TenantsGetPreHandler(a.user, id))
    IN  IF s # 0 THEN Rejected(s, db)
        ELSE IF id \notin db.tenants THEN Result(404, {}, db)
        ELSE Result(200, {id}, db)

\* POST /tenants (the body, a name, always passes the schema here).
TenantsPost(cred, url, db) ==
    LET a == authPlugin(cred, url, db)
        s == First2(a.status, requireRole({"superuser"}, a.user))
        id == FreshId(TenantIds, db.tenants)
    IN  IF s # 0 THEN Rejected(s, db)
        ELSE IF id = NULL THEN Result(0, {}, db)   \* at the bound: not served
        ELSE Result(201, {id}, [db EXCEPT !.tenants = db.tenants \cup {id}])

\* PUT /tenants/:id: update({ name }); no column of the model changes.
TenantsPut(cred, url, id, db) ==
    LET a == authPlugin(cred, url, db)
        s == First2(a.status, requireRole({"superuser"}, a.user))
    IN  IF s # 0 THEN Rejected(s, db)
        ELSE IF id \notin db.tenants THEN Result(404, {}, db)
        ELSE Result(200, {id}, db)

\* A DELETE /tenants/:id handler on tables whose foreign keys do not
\* cascade: the tenants row goes and nothing else.
TenantsDeleteHandlerNoCascade(id, db) ==
    Result(204, {}, [db EXCEPT !.tenants = db.tenants \ {id}])

\* DELETE /tenants/:id handler: users, competitions and grants that
\* reference the tenant go with it (on delete cascade), and so do the
\* grants of the competitions that go.
TenantsDeleteHandler(id, db) ==
    LET keptUsers == {u \in DOMAIN db.users : db.users[u].tenant_id # id}
        keptComps == {c \in DOMAIN db.competitions :
                         db.competitions[c].tenant_id # id}
    IN  Result(204, {},
               [tenants |-> db.tenants \ {id},
                users |-> [u \in keptUsers |-> db.users[u]],
                competitions |-> [c \in keptComps |-> db.competitions[c]],
                grants |-> {g \in db.grants :
                               g[1] \in keptComps /\ g[2] # id}])

TenantsDelete(cred, url, id, db) ==
    LET a == authPlugin(cred, url, db)
        s == First2(a.status, requireRole({"superuser"}, a.user))
    IN  IF s # 0 THEN Rejected(s, db) ELSE TenantsDeleteHandler(id, db)

\* ---------------------------------------------------------- the exchange
\* The exchange a route leaves in req (the request, request.user as the
\* auth hook set it, the reply) and the tables after it.
Serve(op, cu, id, id2, body, res) ==
    \E r \in {res} :
        /\ req' = [op |-> op, cred |-> cu[1], url |-> cu[2],
                   user |-> authPlugin(cu[1], cu[2], DB).user,
                   id |-> id, id2 |-> id2, body |-> body,
                   status |-> r.status, data |-> r.data]
        /\ tenants' = r.db.tenants
        /\ users' = r.db.users
        /\ competitions' = r.db.competitions
        /\ grants' = r.db.grants

Idle == [op |-> "idle"]

\* The reply is sent and the request object is dropped.
ReplySent ==
    /\ req.op # "idle"
    /\ req' = Idle
    /\ UNCHANGED <<tenants, users, competitions, grants>>

\* ------------------------------------------------------------ the system
\* The database when the server starts: two schools, the platform
\* superuser and a school admin, one public and one private competition,
\* no grant (SUPABASE_SEED.md, cut to the bounds).
Init ==
    /\ tenants = TenantIds
    /\ users = [u \in {1, 2} |->
                  IF u = 1 THEN [role |-> "superuser", tenant_id |-> 1]
                  ELSE [role |-> "school_admin", tenant_id |-> 2]]
    /\ competitions = [c \in {1, 2} |->
                  IF c = 1 THEN [visibility |-> "public", tenant_id |-> 1]
                  ELSE [visibility |-> "private", tenant_id |-> 2]]
    /\ grants = {}
    /\ req = Idle

ListUsers ==
    /\ req.op = "idle"
    /\ \E cu \in CallersQ("users") :
           Serve("GET /users", cu, NULL, NULL, NoBody,
                 UsersGetAll(cu[1], cu[2], DB))

GetUser ==
    /\ req.op = "idle"
    /\ \E cu \in CallersQ("users"), id \in UserIds :
           Serve("GET /users/:id", cu, id, NULL, NoBody,
                 UsersGet(cu[1], cu[2], id, DB))

CreateUser ==
    /\ req.op = "idle"
    /\ \E cu \in CallersQ("users"), body \in UserBodies :
           LET res == UsersPost(cu[1], cu[2], body, DB)
           IN  /\ res.status # 0
               /\ Serve("POST /users", cu, NULL, NULL, body, res)

UpdateUser ==
    /\ req.op = "idle"
    /\ \E cu \in CallersQ("users"), id \in UserIds, body \in UserBodies :
           Serve("PUT /users/:id", cu, id, NULL, body,
                 UsersPut(cu[1], cu[2], id, body, DB))

DeleteUser ==
    /\ req.op = "idle"
    /\ \E cu \in CallersQ("users"), id \in UserIds :
           Serve("DELETE /users/:id", cu, id, NULL, NoBody,
                 UsersDelete(cu[1], cu[2], id, DB))

ListUsersByTenant ==
    /\ req.op = "idle"
    /\ \E cu \in Callers("users"), t \in TenantIds :
           Serve("GET /users/tenant/:tenantId", cu, t, NULL, NoBody,
                 UsersByTenant(cu[1], cu[2], t, DB))

NextUsers ==
    \/ ListUsers
    \/ GetUser
    \/ CreateUser
    \/ UpdateUser
    \/ DeleteUser
    \/ ListUsersByTenant
    \/ ReplySent

\* The /users route group alone.
SpecUsers == Init /\ [][NextUsers]_vars

ListCompetitions ==
    /\ req.op = "idle"
    /\ \E cu \in Callers("competitions") :
           Serve("GET /competitions", cu, NULL, NULL, NoBody,
                 CompetitionsGetAll(cu[1], cu[2], DB))

GetCompetition ==
    /\ req.op = "idle"
    /\ \E cu \in Callers("competitions"), id \in CompIds :
           Serve("GET /competitions/:id", cu, id, NULL, NoBody,
                 CompetitionsGet(cu[1], cu[2], id, DB))

CreateCompetition ==
    /\ req.op = "idle"
    /\ \E cu \in CallersQ("competitions"), body \in CompBodies :
           LET res == CompetitionsPost(cu[1], cu[2], body, DB)
           IN  /\ res.status # 0
               /\ Serve("POST /competitions", cu, NULL, NULL, body, res)

UpdateCompetition ==
    /\ req.op = "idle"
    /\ \E cu \in CallersQ("competitions"), id \in CompIds, body \in CompBodies :
           Serve("PUT /competitions/:id", cu, id, NULL, body,
                 CompetitionsPut(cu[1], cu[2], id, body, DB))

DeleteCompetition ==
    /\ req.op = "idle"
    /\ \E cu \in Callers("competitions"), id \in CompIds :
           Serve("DELETE /competitions/:id", cu, id, NULL, NoBody,
                 CompetitionsDelete(cu[1], cu[2], id, DB))

ListCompetitionsByTenant ==
    /\ req.op = "idle"
    /\ \E cu \in Callers("competitions"), t \in TenantIds :
           Serve("GET /competitions/tenant/:tenantId", cu, t, NULL, NoBody,
                 CompetitionsByTenant(cu[1], cu[2], t, DB))

ListPublicCompetitions ==
    /\ req.op = "idle"
    /\ \E cu \in Callers("competitions") :
           Serve("GET /competitions/visibility/public", cu, NULL, NULL, NoBody,
                 CompetitionsPublic(cu[1], cu[2], DB))

ListGrants ==
    /\ req.op = "idle"
    /\ \E cu \in Callers("grants") :
           Serve("GET /competition-allowed-schools", cu, NULL, NULL, NoBody,
                 GrantsGetAll(cu[1], cu[2], DB))

ListGrantsByCompetition ==
    /\ req.op = "idle"
    /\ \E cu \in Callers("grants"), c \in CompIds :
           Serve("GET /competition-allowed-schools/competition/:competitionId",
                 cu, c, NULL, NoBody,
                 GrantsByCompetition(cu[1], cu[2], c, DB))

ListCompetitionsBySchool ==
    /\ req.op = "idle"
    /\ \E cu \in Callers("grants"), t \in TenantIds :
           Serve("GET /competition-allowed-schools/school/:schoolId",
                 cu, t, NULL, NoBody, GrantsBySchool(cu[1], cu[2], t, DB))

CreateGrant ==
    /\ req.op = "idle"
    /\ \E cu \in Callers("grants"), body \in GrantBodies :
           Serve("POST /competition-allowed-schools", cu, NULL, NULL, body,
                 GrantsPost(cu[1], cu[2], body, DB))

DeleteGrant ==
    /\ req.op = "idle"
    /\ \E cu \in Callers("grants"), c \in CompIds, t \in TenantIds :
           Serve("DELETE /competition-allowed-schools/:competitionId/:schoolId",
                 cu, c, t, NoBody, GrantsDelete(cu[1], cu[2], c, t, DB))

NextCompetitions ==
    \/ ListCompetitions
    \/ GetCompetition
    \/ CreateCompetition
    \/ UpdateCompetition
    \/ DeleteCompetition
    \/ ListCompetitionsByTenant
    \/ ListPublicCompetitions
    \/ ListGrants
    \/ ListGrantsByCompetition
    \/ ListCompetitionsBySchool
    \/ CreateGrant
    \/ DeleteGrant
    \/ ReplySent

\* The /competitions and /competition-allowed-schools route groups.
SpecCompetitions == Init /\ [][NextCompetitions]_vars

ListTenants ==
    /\ req.op = "idle"
    /\ \E cu \in Callers("tenants") :
           Serve("GET /tenants", cu, NULL, NULL, NoBody,
                 TenantsGetAll(cu[1], cu[2], DB))

GetTenant ==
    /\ req.op = "idle"
    /\ \E cu \in Callers("tenants"), t \in TenantIds :
           Serve("GET /tenants/:id", cu, t, NULL, NoBody,
                 TenantsGet(cu[1], cu[2], t, DB))

CreateTenant ==
    /\ req.op = "idle"
    /\ \E cu \in Callers("tenants") :
           LET res == TenantsPost(cu[1], cu[2], DB)
           IN  /\ res.status # 0
               /\ Serve("POST /tenants", cu, NULL, NULL, NoBody, res)

UpdateTenant ==
    /\ req.op = "idle"
    /\ \E cu \in Callers("tenants"), t \in TenantIds :
           Serve("PUT /tenants/:id", cu, t, NULL, NoBody,
                 TenantsPut(cu[1], cu[2], t, DB))

DeleteTenant ==
    /\ req.op = "idle"
    /\ \E cu \in Callers("tenants"), t \in TenantIds :
           Serve("DELETE /tenants/:id", cu, t, NULL, NoBody,
                 TenantsDelete(cu[1], cu[2], t, DB))

NextTenants ==
    \/ ListTenants
    \/ GetTenant
    \/ CreateTenant
    \/ UpdateTenant
    \/ DeleteTenant
    \/ ReplySent

\* The /tenants route group alone.
SpecTenants == Init /\ [][NextTenants]_vars

\* The whole API, one request at a time.
Next == NextUsers \/ NextCompetitions \/ NextTenants

Spec == Init /\ [][Next]_vars

\* ---------------------------------------------------- the store's writes
\* The routes that write, of all four groups together.  The callers are a
\* superuser token for every user id (no guard reads the tenant_id of a
\* superuser), the school admin tokens of user 1 for every tenant, and the
\* request without a token whose URL is on the auth skip list.  Only the
\* route, its target and the reply status are kept of the exchange.
Writers(group) ==
    {<<c, PlainUrl(group)>> :
        c \in {t \in Tokens :
                  \/ t.role = "superuser" /\ t.tenant_id = 1
                  \/ t.role = "school_admin" /\ t.sub = 1}}
        \cup {<<NoToken, MarkedUrl(group)>>}

Written(op, id, res) ==
    \E r \in {res} :
        /\ req' = [op |-> op, id |-> id, status |-> r.status]
        /\ tenants' = r.db.tenants
        /\ users' = r.db.users
        /\ competitions' = r.db.competitions
        /\ grants' = r.db.grants

PostUser ==
    /\ req.op = "idle"
    /\ \E cu \in Writers("users"), body \in UserBodies :
           LET res == UsersPost(cu[1], cu[2], body, DB)
           IN  /\ res.status # 0
               /\ Written("POST /users", NULL, res)

PutUser ==
    /\ req.op = "idle"
    /\ \E cu \in Writers("users"), id \in UserIds, body \in UserBodies :
           Written("PUT /users/:id", id, UsersPut(cu[1], cu[2], id, body, DB))

RemoveUser ==
    /\ req.op = "idle"
    /\ \E cu \in Writers("users"), id \in UserIds :
           Written("DELETE /users/:id", id, UsersDelete(cu[1], cu[2], id, DB))

PostCompetition ==
    /\ req.op = "idle"
    /\ \E cu \in Writers("competitions"), body \in CompBodies :
           LET res == CompetitionsPost(cu[1], cu[2], body, DB)
           IN  /\ res.status # 0
               /\ Written("POST /competitions", NULL, res)

PutCompetition ==
    /\ req.op = "idle"
    /\ \E cu \in Writers("competitions"), id \in CompIds, body \in CompBodies :
           Written("PUT /competitions/:id", id,
                   CompetitionsPut(cu[1], cu[2], id, body, DB))

RemoveCompetition ==
    /\ req.op = "idle"
    /\ \E cu \in Writers("competitions"), id \in CompIds :
           Written("DELETE /competitions/:id", id,
                   CompetitionsDelete(cu[1], cu[2], id, DB))

PostGrant ==
    /\ req.op = "idle"
    /\ \E cu \in Writers("grants"), body \in GrantBodies :
           Written("POST /competition-allowed-schools", NULL,
                   GrantsPost(cu[1], cu[2], body, DB))

RemoveGrant ==
    /\ req.op = "idle"
    /\ \E cu \in Writers("grants"), c \in CompIds, t \in TenantIds :
           Written("DELETE /competition-allowed-schools/:competitionId/:schoolId",
                   c, GrantsDelete(cu[1], cu[2], c, t, DB))

PostTenant ==
    /\ req.op = "idle"
    /\ \E cu \in Writers("tenants") :
           LET res == TenantsPost(cu[1], cu[2], DB)
           IN  /\ res.status # 0
               /\ Written("POST /tenants", NULL, res)

PutTenant ==
    /\ req.op = "idle"
    /\ \E cu \in Writers("tenants"), t \in TenantIds :
           Written("PUT /tenants/:id", t, TenantsPut(cu[1], cu[2], t, DB))

RemoveTenant ==
    /\ req.op = "idle"
    /\ \E cu \in Writers("tenants"), t \in TenantIds :
           Written("DELETE /tenants/:id", t, TenantsDelete(cu[1], cu[2], t, DB))

NextStore ==
    \/ PostUser
    \/ PutUser
    \/ RemoveUser
    \/ PostCompetition
    \/ PutCompetition
    \/ RemoveCompetition
    \/ PostGrant
    \/ RemoveGrant
    \/ PostTenant
    \/ PutTenant
    \/ RemoveTenant
    \/ ReplySent

\* Every write of the API on the four tables.
SpecStore == Init /\ [][NextStore]_vars

\* ------------------------------------------------- interleaved handlers
\* Handlers are async functions: each await of a store call is a point
\* where another request's handler may run.  In the specifications below
\* req holds one exchange per request in flight, a step is one store call
\* with the code up to the next one, and pc names the store call the
\* handler makes next ("reply": none, the reply is ready).  The step that
\* takes a request in runs the hooks that make no store call (authPlugin
\* for a token that carries its tenant_id, the body schema) on to the
\* first store call.
InFlight(op, cu, id, body, pc, status) ==
    [op |-> op, cred |-> cu[1], url |-> cu[2],
     user |-> authPlugin(cu[1], cu[2], DB).user,
     id |-> id, body |-> body, pc |-> pc, status |-> status]

\* Where a rejected request and a request that goes on stand.
Replies(status) == [pc |-> "reply", status |-> status]
GoesOn(pc) == [pc |-> pc, status |-> 0]

InitInFlight ==
    /\ tenants = TenantIds
    /\ users = [u \in {1, 2} |->
                  IF u = 1 THEN [role |-> "superuser", tenant_id |-> 1]
                  ELSE [role |-> "school_admin", tenant_id |-> 2]]
    /\ competitions = [c \in {1, 2} |->
                  IF c = 1 THEN [visibility |-> "public", tenant_id |-> 1]
                  ELSE [visibility |-> "private", tenant_id |-> 2]]
    /\ grants = {}
    /\ req = [h \in Handlers |-> Idle]

\* Handler h has its reply sent.
ReplySentBy(h) ==
    /\ req[h].op # "idle"
    /\ req[h].pc = "reply"
    /\ req' = [req EXCEPT ![h] = Idle]
    /\ UNCHANGED <<tenants, users, competitions, grants>>

\* The tables a step leaves.
Stores(db) ==
    /\ tenants' = db.tenants
    /\ users' = db.users
    /\ competitions' = db.competitions
    /\ grants' = db.grants

\* POST /competition-allowed-schools up to and with the preHandler's
\* select: a school admin who passes it has the visibility update next,
\* a superuser the handler's insert.
GrantsPostLookup(cred, url, body, db) ==
    LET a == authPlugin(cred, url, db)
        s == First2(a.status, GrantsPostSchema(body))
        p == GrantsPostPreHandler(a.user, body, db)
    IN  IF s # 0 THEN Replies(s)
        ELSE IF p.status # 0 THEN Replies(p.status)
        ELSE IF a.user.role = "school_admin" THEN GoesOn("update")
        ELSE GoesOn("insert")

\* A visibility update that writes nothing.
GrantsPostUpdateLost(body, db) == db

\* The preHandler's update({ visibility: 'restricted' }).eq('id',
\* competition_id), on the tables as they are when it runs.
GrantsPostUpdate(body, db) ==
    IF body.competition_id \in DOMAIN db.competitions
    THEN [db EXCEPT !.competitions[body.competition_id].visibility =
                        "restricted"]
    ELSE db

\* Grant creations by school admins, interleaved.
GrantLooksUp(h) ==
    /\ req[h].op = "idle"
    /\ \E c \in {t \in Tokens : t.role = "school_admin"}, body \in GrantBodies :
           LET cu == <<c, PlainUrl("grants")>>
               g == GrantsPostLookup(c, cu[2], body, DB)
           IN  req' = [req EXCEPT ![h] =
                          InFlight("POST /competition-allowed-schools", cu,
                                   NULL, body, g.pc, g.status)]
    /\ UNCHANGED <<tenants, users, competitions, grants>>

GrantUpdates(h) ==
    /\ req[h].op = "POST /competition-allowed-schools"
    /\ req[h].pc = "update"
    /\ req' = [req EXCEPT ![h].pc = "insert"]
    /\ Stores(GrantsPostUpdate(req[h].body, DB))

GrantInserts(h) ==
    /\ req[h].op = "POST /competition-allowed-schools"
    /\ req[h].pc = "insert"
    /\ \E res \in {GrantsPostHandler(req[h].body, DB)} :
           /\ req' = [req EXCEPT ![h].pc = "reply", ![h].status = res.status]
           /\ Stores(res.db)

NextGrantCreations ==
    \/ \E h \in Handlers : GrantLooksUp(h)
    \/ \E h \in Handlers : GrantUpdates(h)
    \/ \E h \in Handlers : GrantInserts(h)
    \/ \E h \in Handlers : ReplySentBy(h)

SpecGrantCreations == InitInFlight /\ [][NextGrantCreations]_vars

\* DELETE /users/:id up to and with the preHandler's select (a school
\* admin's; the guard of a superuser makes no store call).
UsersDeleteLookup(cred, url, id, db) ==
    LET a == authPlugin(cred, url, db)
        e == enforceTenantId(a.user, "DELETE", url.tenantId, FALSE, NoBody)
        s == First3(a.status, e.status, UsersDeletePreHandler(a.user, id, db))
    IN  IF s # 0 THEN Replies(s) ELSE GoesOn("delete")

\* PUT /users/:id up to the handler's update.
UsersPutLookup(cred, url, id, body, db) ==
    LET a == authPlugin(cred, url, db)
        e == enforceTenantId(a.user, "PUT", url.tenantId, FALSE, body)
        s == First4(a.status, e.status, UsersPutSchema(body),
                    UsersPutPreHandler(a.user, id, body, db))
    IN  IF s # 0 THEN Replies(s) ELSE GoesOn("update")

\* The seed's superuser as a caller whose users row is outside the cut
\* of the users table.
Developer ==
    [kind |-> "jwt", sub |-> MaxUsers + 1, role |-> "superuser",
     tenant_id |-> 1]

\* Another cut of the seed: a student and the school admin of school 2.
InitUserDeletes ==
    /\ tenants = TenantIds
    /\ users = [u \in {1, 2} |->
                  IF u = 1 THEN [role |-> "student", tenant_id |-> 2]
                  ELSE [role |-> "school_admin", tenant_id |-> 2]]
    /\ competitions = [c \in {1, 2} |->
                  IF c = 1 THEN [visibility |-> "public", tenant_id |-> 1]
                  ELSE [visibility |-> "private", tenant_id |-> 2]]
    /\ grants = {}
    /\ req = [h \in Handlers |-> Idle]

\* User deletes by school admins and user updates by the superuser,
\* interleaved.
UserDeleteLooksUp(h) ==
    /\ req[h].op = "idle"
    /\ \E c \in {t \in Tokens : t.role = "school_admin"}, id \in UserIds :
           LET cu == <<c, PlainUrl("users")>>
               g == UsersDeleteLookup(c, cu[2], id, DB)
           IN  req' = [req EXCEPT ![h] =
                          InFlight("DELETE /users/:id", cu, id, NoBody,
                                   g.pc, g.status)]
    /\ UNCHANGED <<tenants, users, competitions, grants>>

UserDeleteWrites(h) ==
    /\ req[h].op = "DELETE /users/:id"
    /\ req[h].pc = "delete"
    /\ \E res \in {UsersDeleteHandler(req[h].id, DB)} :
           /\ req' = [req EXCEPT ![h].pc = "reply", ![h].status = res.status]
           /\ Stores(res.db)

UserUpdateArrives(h) ==
    /\ req[h].op = "idle"
    /\ \E id \in UserIds, body \in UserBodies :
           LET cu == <<Developer, PlainUrl("users")>>
               g == UsersPutLookup(cu[1], cu[2], id, body, DB)
           IN  req' = [req EXCEPT ![h] =
                          InFlight("PUT /users/:id", cu, id, body,
                                   g.pc, g.status)]
    /\ UNCHANGED <<tenants, users, competitions, grants>>

UserUpdateWrites(h) ==
    /\ req[h].op = "PUT /users/:id"
    /\ req[h].pc = "update"
    /\ \E res \in {UsersPutHandler(req[h].id, req[h].body, DB)} :
           /\ req' = [req EXCEPT ![h].pc = "reply", ![h].status = res.status]
           /\ Stores(res.db)

NextUserDeletes ==
    \/ \E h \in Handlers : UserDeleteLooksUp(h)
    \/ \E h \in Handlers : UserDeleteWrites(h)
    \/ \E h \in Handlers : UserUpdateArrives(h)
    \/ \E h \in Handlers : UserUpdateWrites(h)
    \/ \E h \in Handlers : ReplySentBy(h)

SpecUserDeletes == InitUserDeletes /\ [][NextUserDeletes]_vars

\* What a PUT /competitions/:id body may carry: the handler passes the
\* whole body to update(), the body schema names visibility and tenant_id
\* but does not close the object, so an id in the body reaches the store.
CompUpdateBodies ==
    {[role |-> Absent, tenant_id |-> t, visibility |-> v,
      competition_id |-> NULL, school_id |-> NULL, id |-> i] :
        t \in TenantIds \cup {NULL}, v \in {Absent, "public"},
        i \in CompIds \cup {NULL}}

\* PUT /competitions/:id up to and with the preValidation's select.
CompetitionsPutLookup(cred, url, id, body, db) ==
    LET a == authPlugin(cred, url, db)
        s == First2(a.status,
                    CompetitionsPutPreValidation(a.user, id, body, db))
    IN  IF s # 0 THEN Replies(s) ELSE GoesOn("update")

\* The rest of PUT /competitions/:id: the preHandler enforceTenantId,
\* then update(updateData).eq('id', id) on the tables as they are when it
\* runs.  A body that carries an id moves the row to it; the store
\* refuses when the id is taken (primary key) or when grants name the old
\* one (their foreign key has no on update clause).
CompetitionsPutUpdate(user, url, id, body, db) ==
    LET e == enforceTenantId(user, "PUT", url.tenantId, TRUE, body)
        res == CompetitionsPutHandler(id, e.body, db)
    IN  IF e.status # 0 THEN Rejected(e.status, db)
        ELSE IF res.status # 200 \/ body.id = NULL \/ body.id = id THEN res
        ELSE IF body.id \in DOMAIN db.competitions THEN Result(500, {}, db)
        ELSE IF \E g \in db.grants : g[1] = id THEN Result(500, {}, db)
        ELSE Result(200, {body.id},
                    [db EXCEPT !.competitions =
                        InsertRow(DeleteRow(db.competitions, id), body.id,
                                  res.db.competitions[id])])

\* DELETE /competitions/:id up to its first store call: the preHandler's
\* select, or for a superuser the handler's delete.
CompetitionsDeleteLookup(cred, url, id, db) ==
    LET a == authPlugin(cred, url, db)
        s == First2(a.status, CompetitionsDeletePreHandler(a.user, id, db))
    IN  IF s # 0 THEN Replies(s) ELSE GoesOn("delete")

\* The callers of the competition writes: the seed's student and school
\* admin of school 2, with tokens that agree with their rows, and the
\* superuser.
CompetitionWriters ==
    {t \in Tokens : /\ t.sub \in DOMAIN users
                    /\ users[t.sub].role = t.role
                    /\ users[t.sub].tenant_id = t.tenant_id}
        \cup {Developer}

\* Competition updates and deletes, interleaved.
CompetitionUpdateLooksUp(h) ==
    /\ req[h].op = "idle"
    /\ \E c \in CompetitionWriters, id \in CompIds, body \in CompUpdateBodies :
           LET cu == <<c, PlainUrl("competitions")>>
               g == CompetitionsPutLookup(c, cu[2], id, body, DB)
           IN  req' = [req EXCEPT ![h] =
                          InFlight("PUT /competitions/:id", cu, id, body,
                                   g.pc, g.status)]
    /\ UNCHANGED <<tenants, users, competitions, grants>>

CompetitionUpdateWrites(h) ==
    /\ req[h].op = "PUT /competitions/:id"
    /\ req[h].pc = "update"
    /\ \E res \in {CompetitionsPutUpdate(req[h].user, req[h].url, req[h].id,
                                         req[h].body, DB)} :
           /\ req' = [req EXCEPT ![h].pc = "reply", ![h].status = res.status]
           /\ Stores(res.db)

CompetitionDeleteLooksUp(h) ==
    /\ req[h].op = "idle"
    /\ \E c \in CompetitionWriters, id \in CompIds :
           LET cu == <<c, PlainUrl("competitions")>>
               g == CompetitionsDeleteLookup(c, cu[2], id, DB)
           IN  req' = [req EXCEPT ![h] =
                          InFlight("DELETE /competitions/:id", cu, id, NoBody,
                                   g.pc, g.status)]
    /\ UNCHANGED <<tenants, users, competitions, grants>>

CompetitionDeleteWrites(h) ==
    /\ req[h].op = "DELETE /competitions/:id"
    /\ req[h].pc = "delete"
    /\ \E res \in {CompetitionsDeleteHandler(req[h].id, DB)} :
           /\ req' = [req EXCEPT ![h].pc = "reply", ![h].status = res.status]
           /\ Stores(res.db)

NextCompetitionWrites ==
    \/ \E h \in Handlers : CompetitionUpdateLooksUp(h)
    \/ \E h \in Handlers : CompetitionUpdateWrites(h)
    \/ \E h \in Handlers : CompetitionDeleteLooksUp(h)
    \/ \E h \in Handlers : CompetitionDeleteWrites(h)
    \/ \E h \in Handlers : ReplySentBy(h)

SpecCompetitionWrites == InitUserDeletes /\ [][NextCompetitionWrites]_vars

\* ------------------------------------------- row-level-security policies
\* The select policies of the database script, for a caller whose users
\* row is row: get_user_role() is row.role and get_user_tenant_id() is
\* row.tenant_id.  A row is visible when one of the policies that apply
\* to select (those for select and those for all) holds.

\* competition_allowed_schools: the row <<competition_id, school_id>> g.
AllowedSchoolsSelectPolicies(row, g, db) ==
    \/ /\ row.role = "school_admin"
       /\ g[1] \in DOMAIN db.competitions
       /\ db.competitions[g[1]].tenant_id = row.tenant_id
    \/ g[2] = row.tenant_id
    \/ row.role = "superuser"

\* A competitions select policy set without the one for competitions
\* allowed to the caller's school.
CompetitionsSelectPoliciesNoGrants(row, id, db) ==
    LET competition == db.competitions[id]
    IN  \/ competition.visibility = "public"
        \/ competition.tenant_id = row.tenant_id
        \/ row.role = "superuser"

\* competitions: the row with id id.
CompetitionsSelectPolicies(row, id, db) ==
    LET competition == db.competitions[id]
    IN  \/ competition.visibility = "public"
        \/ competition.tenant_id = row.tenant_id
        \/ /\ row.role = "school_admin"
           /\ competition.tenant_id = row.tenant_id
        \/ /\ competition.visibility = "restricted"
           /\ \E cas \in db.grants :
                 /\ AllowedSchoolsSelectPolicies(row, cas, db)
                 /\ cas[1] = id
                 /\ cas[2] = row.tenant_id
        \/ row.role = "superuser"

\* ------------------------------------------------------------ properties
\* The exchange r was made with a verified token whose role and tenant_id
\* are those of the caller's users row in the tables db.
CallerAgreesWithRow(r, db) ==
    /\ r.cred.kind = "jwt"
    /\ r.user.id \in DOMAIN db.users
    /\ db.users[r.user.id].role = r.user.role
    /\ db.users[r.user.id].tenant_id = r.user.tenant_id

C3_SchoolAdminUpdatesOwnTenantUser ==
    [][(/\ req'.op = "PUT /users/:id"
        /\ req'.user.role = "school_admin"
        /\ CallerAgreesWithRow(req', DB)
        /\ req'.url.tenantId \in {NULL, req'.user.tenant_id}
        /\ req'.id # req'.user.id
        /\ req'.id \in DOMAIN users
        /\ users[req'.id].tenant_id = req'.user.tenant_id
        /\ users[req'.id].role # "superuser"
        /\ req'.body.role # "superuser"
        /\ req'.body.tenant_id \in {NULL, req'.user.tenant_id}) =>
          /\ req'.status = 200
          /\ users' = [users EXCEPT ![req'.id] =
                          UserUpdated(users[req'.id], req'.body)]]_vars

\* C4: a user is created only for a superuser or for a school admin whose
\* body names the admin's own tenant and not the role superuser; a student
\* is denied with 403 for every body the route's schema admits.
C4_UserCreateNeedsAdminOrSuperuser ==
    [][(req'.op = "POST /users" /\ CallerAgreesWithRow(req', DB)) =>
          /\ req'.status = 201 =>
                \/ req'.user.role = "superuser"
                \/ /\ req'.user.role = "school_admin"
                   /\ req'.body.role # "superuser"
                   /\ req'.body.tenant_id = req'.user.tenant_id
          /\ (req'.user.role = "student" /\ UsersPostSchema(req'.body) = 0) =>
                req'.status = 403]_vars

\* C5: a request without a valid bearer credential is answered 401,
\* whatever its URL, and changes no table.
C5_NoCredentialIs401 ==
    [][(req'.op # "idle" /\ req'.cred.kind # "jwt") =>
          /\ req'.status = 401
          /\ UNCHANGED <<tenants, users, competitions, grants>>]_vars
\* Every request the credential cred can make of the API, with or without
\* a tenantId query parameter, and the status the tables db give it.
RouteReplies(cred, db) ==
    LET U(g) == {PlainUrl(g)} \cup {QueryUrl(g, t) : t \in TenantIds}
        R(op, id, body, res) ==
            [op |-> op, id |-> id, body |-> body, status |-> res.status]
    IN  {R("GET /users", NULL, NoBody, UsersGetAll(cred, u, db)) :
            u \in U("users")}
        \cup {R("GET /users/:id", i, NoBody, UsersGet(cred, u, i, db)) :
                u \in U("users"), i \in UserIds}
        \cup {R("POST /users", NULL, b, UsersPost(cred, u, b, db)) :
                u \in U("users"), b \in UserBodies}
        \cup {R("PUT /users/:id", i, b, UsersPut(cred, u, i, b, db)) :
                u \in U("users"), i \in UserIds, b \in UserBodies}
        \cup {R("DELETE /users/:id", i, NoBody, UsersDelete(cred, u, i, db)) :
                u \in U("users"), i \in UserIds}
        \cup {R("GET /users/tenant/:tenantId", t, NoBody,
                UsersByTenant(cred, u, t, db)) :
                u \in U("users"), t \in TenantIds}
        \cup {R("GET /competitions", NULL, NoBody,
                CompetitionsGetAll(cred, u, db)) : u \in U("competitions")}
        \cup {R("GET /competitions/:id", c, NoBody,
                CompetitionsGet(cred, u, c, db)) :
                u \in U("competitions"), c \in CompIds}
        \cup {R("POST /competitions", NULL, b,
                CompetitionsPost(cred, u, b, db)) :
                u \in U("competitions"), b \in CompBodies}
        \cup {R("PUT /competitions/:id", c, b,
                CompetitionsPut(cred, u, c, b, db)) :
                u \in U("competitions"), c \in CompIds, b \in CompBodies}
        \cup {R("DELETE /competitions/:id", c, NoBody,
                CompetitionsDelete(cred, u, c, db)) :
                u \in U("competitions"), c \in CompIds}
        \cup {R("GET /competitions/tenant/:tenantId", t, NoBody,
                CompetitionsByTenant(cred, u, t, db)) :
                u \in U("competitions"), t \in TenantIds}
        \cup {R("GET /competitions/visibility/public", NULL, NoBody,
                CompetitionsPublic(cred, u, db)) : u \in U("competitions")}
        \cup {R("GET /competition-allowed-schools", NULL, NoBody,
                GrantsGetAll(cred, u, db)) : u \in U("grants")}
        \cup {R("GET /competition-allowed-schools/competition/:competitionId",
                c, NoBody, GrantsByCompetition(cred, u, c, db)) :
                u \in U("grants"), c \in CompIds}
        \cup {R("GET /competition-allowed-schools/school/:schoolId",
                t, NoBody, GrantsBySchool(cred, u, t, db)) :
                u \in U("grants"), t \in TenantIds}
        \cup {R("POST /competition-allowed-schools", NULL, b,
                GrantsPost(cred, u, b, db)) :
                u \in U("grants"), b \in GrantBodies}
        \cup {R("DELETE /competition-allowed-schools/:competitionId/:schoolId",
                c, NoBody, GrantsDelete(cred, u, c, t, db)) :
                u \in U("grants"), c \in CompIds, t \in TenantIds}
        \cup {R("GET /tenants", NULL, NoBody, TenantsGetAll(cred, u, db)) :
                u \in U("tenants")}
        \cup {R("GET /tenants/:id", t, NoBody, TenantsGet(cred, u, t, db)) :
                u \in U("tenants"), t \in TenantIds}
        \cup {R("POST /tenants", NULL, NoBody, TenantsPost(cred, u, db)) :
                u \in U("tenants")}
        \cup {R("PUT /tenants/:id", t, NoBody, TenantsPut(cred, u, t, db)) :
                u \in U("tenants"), t \in TenantIds}
        \cup {R("DELETE /tenants/:id", t, NoBody,
                TenantsDelete(cred, u, t, db)) :
                u \in U("tenants"), t \in TenantIds}

\* The three requests a superuser is denied: an update of its own user row
\* that sets role or tenant_id, the delete of its own user row, and a
\* competition update that moves the competition to another tenant.
SuperuserCarveOut(cred, r, db) ==
    \/ /\ r.op = "PUT /users/:id"
       /\ r.id = cred.sub
       /\ r.body.role # Absent \/ r.body.tenant_id # NULL
       /\ UsersPutSchema(r.body) = 0
    \/ /\ r.op = "DELETE /users/:id"
       /\ r.id = cred.sub
    \/ /\ r.op = "PUT /competitions/:id"
       /\ r.id \in DOMAIN db.competitions
       /\ r.body.tenant_id # NULL
       /\ r.body.tenant_id # db.competitions[r.id].tenant_id

\* C1 as stated: no request of a superuser is answered 403.
C1_SuperuserNeverDenied ==
    (req.op # "idle" /\ req.user.role = "superuser"
        /\ CallerAgreesWithRow(req, DB)) => req.status # 403

\* C1, amended: over the tables of every reachable state (each is the
\* tables of a state between two requests), every request a superuser can
\* make of any route is answered 403 exactly in the three carve-outs; in
\* particular every other user and competition update, whatever its body
\* or its target's tenant, passes the guards.
C1_SuperuserDeniedOnlyInCarveOuts ==
    req.op = "idle" =>
        \A cred \in {c \in Tokens : c.role = "superuser"} :
            \A r \in RouteReplies(cred, DB) :
                r.status = 403 <=> SuperuserCarveOut(cred, r, DB)

\* C1 happens: a superuser's update of a competition of another tenant,
\* with a body that changes it, is applied.
C1_Witness ==
    /\ req.op = "PUT /competitions/:id"
    /\ req.user.role = "superuser"
    /\ CallerAgreesWithRow(req, DB)
    /\ req.id \in DOMAIN competitions
    /\ competitions[req.id].tenant_id # req.user.tenant_id
    /\ req.body.visibility # Absent
    /\ req.status = 200

\* The endpoints that send competition rows.
CompetitionReads ==
    {"GET /competitions", "GET /competitions/:id",
     "GET /competitions/tenant/:tenantId",
     "GET /competitions/visibility/public",
     "GET /competition-allowed-schools/school/:schoolId"}

\* C6: no read endpoint sends a caller who is not a superuser a private
\* competition of a tenant other than the caller's.
C6_PrivateStaysInTenant ==
    (/\ req.op \in CompetitionReads
     /\ req.status = 200
     /\ CallerAgreesWithRow(req, DB)
     /\ req.user.role # "superuser") =>
        \A c \in req.data :
            ~ /\ competitions[c].visibility = "private"
              /\ competitions[c].tenant_id # req.user.tenant_id

\* C7: after every grant creation that succeeds, by a school admin or by a
\* superuser, the competition of the grant is restricted.
C7_GrantedCompetitionIsRestricted ==
    (/\ req.op = "POST /competition-allowed-schools"
     /\ req.status = 201
     /\ CallerAgreesWithRow(req, DB)) =>
        competitions[req.body.competition_id].visibility = "restricted"

\* C8: when a school admin's creation of the grant (c, B) succeeds, c is a
\* competition of the admin's tenant, it is restricted whatever it was
\* before, the grant is stored, and a read_one of c by any student of
\* tenant B that follows is allowed.
C8_SchoolAdminGrantOpensCompetition ==
    (/\ req.op = "POST /competition-allowed-schools"
     /\ req.status = 201
     /\ req.user.role = "school_admin") =>
        LET c == req.body.competition_id
            B == req.body.school_id
        IN  /\ c \in DOMAIN competitions
            /\ competitions[c].tenant_id = req.user.tenant_id
            /\ competitions[c].visibility = "restricted"
            /\ <<c, B>> \in grants
            /\ \A sub \in UserIds :
                   CompetitionsGet([kind |-> "jwt", sub |-> sub,
                                    role |-> "student", tenant_id |-> B],
                                   PlainUrl("competitions"), c, DB).status = 200

\* C8 happens: a school admin has granted a competition of its tenant to
\* another school.
C8_Witness ==
    /\ req.op = "POST /competition-allowed-schools"
    /\ req.status = 201
    /\ req.user.role = "school_admin"
    /\ CallerAgreesWithRow(req, DB)
    /\ req.body.school_id # req.user.tenant_id

\* C9: the per-school list of tenant A is the public competitions, the
\* competitions A owns whatever their visibility, and the restricted
\* competitions of other tenants granted to A.
C9_SchoolListIsTheUnion ==
    (/\ req.op = "GET /competition-allowed-schools/school/:schoolId"
     /\ req.status = 200
     /\ CallerAgreesWithRow(req, DB)
     /\ req.id = req.user.tenant_id) =>
        req.data =
            {c \in DOMAIN competitions :
                \/ competitions[c].visibility = "public"
                \/ competitions[c].tenant_id = req.id
                \/ /\ competitions[c].visibility = "restricted"
                   /\ competitions[c].tenant_id # req.id
                   /\ <<c, req.id>> \in grants}

\* The exchange r is one whose guard looks the target up and it got as far
\* as that guard: user read_one, update and delete by a school admin,
\* competition read_one, update and delete by a school admin or student,
\* grant create, delete and list_for_competition by a school admin.
ReachedLookupGuard(r) ==
    /\ r.op # "idle"
    /\ r.cred.kind = "jwt"
    /\ r.url.tenantId = NULL
    /\ \/ /\ r.op \in {"GET /users/:id", "PUT /users/:id", "DELETE /users/:id"}
          /\ r.user.role = "school_admin"
          /\ r.id # r.user.id
          /\ UsersPutSchema(r.body) = 0
       \/ /\ r.op \in {"GET /competitions/:id", "PUT /competitions/:id",
                       "DELETE /competitions/:id"}
          /\ r.user.role \in {"school_admin", "student"}
       \/ /\ r.op \in {"DELETE /competition-allowed-schools/:competitionId/:schoolId",
                       "GET /competition-allowed-schools/competition/:competitionId"}
          /\ r.user.role = "school_admin"
       \/ /\ r.op = "POST /competition-allowed-schools"
          /\ r.user.role = "school_admin"
          /\ GrantsPostSchema(r.body) = 0

\* The entity the guard of exchange r looks up is in the tables db.
LookupTargetExists(r, db) ==
    IF r.op \in {"GET /users/:id", "PUT /users/:id", "DELETE /users/:id"}
    THEN r.id \in DOMAIN db.users
    ELSE IF r.op = "POST /competition-allowed-schools"
    THEN r.body.competition_id \in DOMAIN db.competitions
    ELSE r.id \in DOMAIN db.competitions

\* C10: where the guard's lookup finds no such entity the reply is 404,
\* never 403, and no reply about an entity that exists is 404.
C10_MissingTargetIs404 ==
    [][(ReachedLookupGuard(req') /\ CallerAgreesWithRow(req', DB)) =>
          (req'.status = 404 <=> ~LookupTargetExists(req', DB))]_vars
\* C11: the competitions-by-tenant list and the per-school list, asked by a
\* caller who is not a superuser for a tenant other than the caller's, are
\* answered 403 and send no row.
C11_ForeignTenantListDenied ==
    (/\ req.op \in {"GET /competitions/tenant/:tenantId",
                    "GET /competition-allowed-schools/school/:schoolId"}
     /\ CallerAgreesWithRow(req, DB)
     /\ req.user.role # "superuser"
     /\ req.id # req.user.tenant_id) =>
        /\ req.status = 403
        /\ req.data = {}

C13_CompetitionCreateByAdminInOwnTenant ==
    [][req'.op = "POST /competitions" =>
          /\ competitions' # competitions => req'.status = 201
          /\ req'.status = 201 =>
                /\ req'.user.role \in {"school_admin", "superuser"}
                /\ \A c \in req'.data :
                       /\ c \notin DOMAIN competitions
                       /\ c \in DOMAIN competitions'
                       /\ req'.user.role = "school_admin" =>
                              competitions'[c].tenant_id = req'.user.tenant_id
          /\ (req'.cred.kind = "jwt" /\ req'.user.role = "student") =>
                /\ req'.status = 403
                /\ competitions' = competitions]_vars

\* C13 happens: a school admin has created a competition.
C13_Witness ==
    /\ req.op = "POST /competitions"
    /\ req.user.role = "school_admin"
    /\ CallerAgreesWithRow(req, DB)
    /\ req.status = 201
    /\ \E c \in req.data : competitions[c].tenant_id = req.user.tenant_id

\* C14: an update or delete of an existing competition by a student, or by
\* a school admin of another tenant, is answered 403 and changes nothing;
\* and no request of a student, and no request of a school admin to a
\* competition of another tenant, changes or removes a competition.
C14_CompetitionWriteNeedsOwner ==
    [][(/\ req'.op # "idle"
        /\ req'.cred.kind = "jwt"
        /\ req'.user.role \in {"student", "school_admin"}) =>
          /\ \A c \in DOMAIN competitions :
                 (\/ req'.user.role = "student"
                  \/ competitions[c].tenant_id # req'.user.tenant_id) =>
                     /\ c \in DOMAIN competitions'
                     /\ competitions'[c] = competitions[c]
          /\ (/\ req'.op \in {"PUT /competitions/:id",
                              "DELETE /competitions/:id"}
              /\ req'.id \in DOMAIN competitions
              /\ \/ req'.user.role = "student"
                 \/ competitions[req'.id].tenant_id # req'.user.tenant_id) =>
                 /\ req'.status = 403
                 /\ competitions' = competitions
                 /\ grants' = grants]_vars

\* C14 happens: a school admin asked to delete a competition of another
\* tenant and was denied.
C14_Witness ==
    /\ req.op = "DELETE /competitions/:id"
    /\ req.user.role = "school_admin"
    /\ CallerAgreesWithRow(req, DB)
    /\ req.id \in DOMAIN competitions
    /\ competitions[req.id].tenant_id # req.user.tenant_id
    /\ req.status = 403
\* The competition a grant request of exchange r is about.
GrantCompetition(r) ==
    IF r.op = "POST /competition-allowed-schools"
    THEN r.body.competition_id ELSE r.id

\* C15: a grant request changes the grants or a competition only for a
\* superuser or for a school admin of the competition's tenant; a student's
\* and another tenant's school admin's request is turned away (403, or 400
\* for a create whose body fails the schema) and changes nothing.
C15_GrantWriteNeedsOwnerOrSuperuser ==
    [][req'.op \in {"POST /competition-allowed-schools",
                    "DELETE /competition-allowed-schools/:competitionId/:schoolId"} =>
          LET c == GrantCompetition(req')
              owner == /\ req'.user.role = "school_admin"
                       /\ c \in DOMAIN competitions
                       /\ competitions[c].tenant_id = req'.user.tenant_id
              malformed == /\ req'.op = "POST /competition-allowed-schools"
                           /\ GrantsPostSchema(req'.body) # 0
          IN  /\ (grants' # grants \/ competitions' # competitions) =>
                     (req'.user.role = "superuser" \/ owner)
              /\ (/\ req'.cred.kind = "jwt"
                  /\ req'.user.role # "superuser"
                  /\ ~owner) =>
                     /\ req'.status = IF malformed THEN 400 ELSE 403
                     /\ grants' = grants
                     /\ competitions' = competitions]_vars

\* C15 happens: a school admin asked for a grant on a competition of
\* another tenant and was denied.
C15_Witness ==
    /\ req.op = "POST /competition-allowed-schools"
    /\ req.user.role = "school_admin"
    /\ CallerAgreesWithRow(req, DB)
    /\ req.body.competition_id \in DOMAIN competitions
    /\ competitions[req.body.competition_id].tenant_id # req.user.tenant_id
    /\ req.body.school_id = req.user.tenant_id
    /\ req.status = 403
\* request.user of the callers who are not superusers: a verified token
\* of role student or school_admin, or none at all.
NonSuperusers ==
    {[id |-> c.sub, role |-> c.role, tenant_id |-> c.tenant_id] :
        c \in {t \in Tokens : t.role # "superuser"}} \cup {NoUser}

\* C16: a users row becomes a superuser's, by insert or by update, only in
\* a request of a superuser; and, over the tables between two requests
\* (every reachable content of the tables), the create and update guards
\* let no other caller by with a body of role superuser.
C16_SuperuserOnlyBySuperuser ==
    [][/\ \A u \in DOMAIN users' :
              users'[u].role = "superuser" =>
                  \/ u \in DOMAIN users /\ users[u].role = "superuser"
                  \/ req'.user.role = "superuser"
       /\ req.op = "idle" =>
              \A user \in NonSuperusers :
                  \A body \in {b \in UserBodies : b.role = "superuser"} :
                      /\ UsersPostPreHandler(user, body) = 403
                      /\ \A id \in UserIds :
                             UsersPutPreHandler(user, id, body, DB) = 403]_vars

\* C16 happens: a school admin asked for a superuser account in its own
\* tenant and got none.
C16_Witness ==
    /\ req.op = "POST /users"
    /\ req.user.role = "school_admin"
    /\ CallerAgreesWithRow(req, DB)
    /\ req.body.role = "superuser"
    /\ req.body.tenant_id = req.user.tenant_id
    /\ req.status \in {400, 403}
    /\ req.data = {}

C18_PublicReadAllowed ==
    (/\ req.op = "GET /competitions/:id"
     /\ req.cred.kind = "jwt"
     /\ req.id \in DOMAIN competitions
     /\ competitions[req.id].visibility = "public") =>
        /\ req.status = 200
        /\ req.data = {req.id}

\* C18 happens: a student has read a public competition of another tenant.
C18_Witness ==
    /\ req.op = "GET /competitions/:id"
    /\ req.user.role = "student"
    /\ req.id \in DOMAIN competitions
    /\ competitions[req.id].visibility = "public"
    /\ competitions[req.id].tenant_id # req.user.tenant_id
    /\ req.status = 200

\* C19: read_one of a private competition of another tenant by a caller
\* who is not a superuser is answered 403, with or without a grant that
\* names the caller's tenant.
C19_ForeignPrivateReadDenied ==
    (/\ req.op = "GET /competitions/:id"
     /\ req.cred.kind = "jwt"
     /\ req.user.role # "superuser"
     /\ req.id \in DOMAIN competitions
     /\ competitions[req.id].visibility = "private"
     /\ competitions[req.id].tenant_id # req.user.tenant_id) =>
        /\ req.status = 403
        /\ req.data = {}

\* C19 happens: a school admin was denied a private competition of another
\* tenant although a grant names the admin's tenant.
C19_Witness ==
    /\ req.op = "GET /competitions/:id"
    /\ req.user.role = "school_admin"
    /\ CallerAgreesWithRow(req, DB)
    /\ req.id \in DOMAIN competitions
    /\ competitions[req.id].visibility = "private"
    /\ competitions[req.id].tenant_id # req.user.tenant_id
    /\ <<req.id, req.user.tenant_id>> \in grants
    /\ req.status = 403

\* C20: creating a grant pair that is already stored changes neither the
\* grants nor any competition: the competition's visibility after the
\* request is its visibility just before it.
C20_GrantCreateIdempotent ==
    [][(/\ req'.op = "POST /competition-allowed-schools"
        /\ CallerAgreesWithRow(req', DB)
        /\ <<req'.body.competition_id, req'.body.school_id>> \in grants) =>
          /\ grants' = grants
          /\ competitions' = competitions]_vars

\* The endpoints of the /tenants route group.
TenantEndpoints ==
    {"GET /tenants", "GET /tenants/:id", "POST /tenants", "PUT /tenants/:id",
     "DELETE /tenants/:id"}

\* C21: no tenant endpoint sends a caller who is not a superuser a tenant
\* other than the caller's: the list is answered 403 to every student and
\* school admin, and read_one is answered 403 unless the id asked for is
\* the caller's tenant_id.
C21_TenantReadsStayInTenant ==
    (req.op \in TenantEndpoints /\ req.user.role # "superuser") =>
        /\ req.data \subseteq {req.user.tenant_id}
        /\ (req.cred.kind = "jwt" /\ req.op = "GET /tenants") =>
               req.status = 403
        /\ (req.cred.kind = "jwt" /\ req.op = "GET /tenants/:id") =>
               (req.status = 403 <=> req.id # req.user.tenant_id)

\* C21 happens: a school admin has read the tenant of its own school.
C21_Witness ==
    /\ req.op = "GET /tenants/:id"
    /\ req.user.role = "school_admin"
    /\ CallerAgreesWithRow(req, DB)
    /\ req.id = req.user.tenant_id
    /\ req.status = 200
    /\ req.data = {req.id}

\* The endpoints that send users rows.
UserReads == {"GET /users", "GET /users/:id", "GET /users/tenant/:tenantId"}

ForeignKeysHold(db) ==
    /\ \A u \in DOMAIN db.users :
           db.users[u].tenant_id # NULL => db.users[u].tenant_id \in db.tenants
    /\ \A c \in DOMAIN db.competitions :
           db.competitions[c].tenant_id \in db.tenants
    /\ \A g \in db.grants :
           g[1] \in DOMAIN db.competitions /\ g[2] \in db.tenants

\* C23: in every state the writes of the API reach, every user's non-null
\* tenant_id and every competition's tenant_id names a tenant that exists
\* and every grant names a competition and a tenant that exist; and after
\* a tenant delete that is served the tenant is gone, and with it (by the
\* foreign keys) every user, competition and grant that named it.
C23_ForeignKeysHoldAfterEveryWrite ==
    /\ ForeignKeysHold(DB)
    /\ (req.op = "DELETE /tenants/:id" /\ req.status = 204) =>
           /\ req.id \notin tenants
           /\ \A u \in DOMAIN users : users[u].tenant_id # req.id
           /\ \A c \in DOMAIN competitions :
                  competitions[c].tenant_id # req.id
           /\ \A g \in grants : g[2] # req.id

\* C23 happens: tenant 2 has been deleted and with it the school admin and
\* the competition the database starts with in tenant 2, while a grant on
\* a competition of another tenant is left.
C23_Witness ==
    /\ req.op = "DELETE /tenants/:id"
    /\ req.status = 204
    /\ req.id = 2
    /\ 2 \notin tenants
    /\ 2 \notin DOMAIN users
    /\ 2 \notin DOMAIN competitions
    /\ grants # {}

\* Handler h serves a school admin's grant creation that has passed the
\* lookup and has the store call pc next.
AdminGrantAt(h, pc) ==
    /\ req[h].op = "POST /competition-allowed-schools"
    /\ req[h].user.role = "school_admin"
    /\ req[h].pc = pc

\* C24 as stated, its first half: the two writes come in either order, so
\* where a school admin's creation has passed its lookup and has written
\* nothing yet, on a competition that is not restricted, a step of that
\* request that stores the grant while the competition is still not
\* restricted is possible.
C24_EitherWriteMayComeFirst ==
    \A h \in Handlers :
        LET c == req[h].body.competition_id
            g == <<c, req[h].body.school_id>>
        IN  (/\ AdminGrantAt(h, "update")
             /\ c \in DOMAIN competitions
             /\ competitions[c].visibility # "restricted"
             /\ g \notin grants) =>
                ENABLED (/\ NextGrantCreations
                         /\ req'[h] # req[h]
                         /\ g \in grants'
                         /\ competitions'[c].visibility # "restricted")

\* C24, amended: a school admin's grant creation writes twice, in two
\* steps and in one order, the visibility first and the grant second.  So
\* while school admins create grants, at whatever interleaving, no state
\* has a grant on a competition that is not restricted, and a request
\* whose visibility write is still to come has stored no grant: every
\* grant stored was stored by a request that had written the visibility.
C24_VisibilityIsWrittenBeforeTheGrant ==
    [][/\ \A g \in grants' : competitions'[g[1]].visibility = "restricted"
       /\ \A h \in Handlers :
              (AdminGrantAt(h, "update") /\ req'[h] # req[h]) =>
                  /\ req'[h].pc = "insert"
                  /\ grants' = grants
       /\ \A h \in Handlers :
              (AdminGrantAt(h, "insert") /\ req'[h] # req[h]) =>
                  /\ req'[h].pc = "reply"
                  /\ competitions' = competitions
       /\ grants' # grants =>
              \E h \in Handlers : AdminGrantAt(h, "insert") /\ req'[h] # req[h]
      ]_vars

\* C24 happens: the only request in flight is a school admin's creation of
\* a grant on a competition of its tenant; the competition is already
\* restricted (it was private when the request came in: nothing else has
\* written) and the grant is not stored yet.
C24_Witness ==
    \E h \in Handlers :
        /\ AdminGrantAt(h, "insert")
        /\ CallerAgreesWithRow(req[h], DB)
        /\ \A k \in Handlers \ {h} : req[k] = Idle
        /\ grants = {}
        /\ competitions[req[h].body.competition_id].visibility = "restricted"
        /\ req[h].body.school_id # req[h].user.tenant_id

\* C25: the guard phase of a request writes nothing: the tables when the
\* preHandler has made its decision are the tables the request found.
\* (Of all the guards only the preHandler of grant creation returns
\* tables; the others make select calls alone.)
C25_GuardsWriteNothing ==
    [][(/\ req'.op = "POST /competition-allowed-schools"
        /\ CallerAgreesWithRow(req', DB)
        /\ GrantsPostSchema(req'.body) = 0) =>
          GrantsPostPreHandler(req'.user, req'.body, DB).db = DB]_vars

\* C26: the per-school list sent for tenant T is the set of the
\* competitions whose read_one the guard allows to a student of T.
C26_SchoolListAgreesWithReadOne ==
    (/\ req.op = "GET /competition-allowed-schools/school/:schoolId"
     /\ req.cred.kind = "jwt"
     /\ req.status = 200) =>
        req.data =
            {c \in DOMAIN competitions :
                CompetitionsGetPreHandler(
                    [id |-> req.user.id, role |-> "student",
                     tenant_id |-> req.id], c, DB) = 0}

\* C27: a grant creation that is answered with an error has changed
\* nothing: the grants and every competition are as the request found them.
C27_FailedGrantCreateChangesNothing ==
    [][(/\ req'.op = "POST /competition-allowed-schools"
        /\ CallerAgreesWithRow(req', DB)
        /\ req'.status >= 400) =>
          /\ grants' = grants
          /\ competitions' = competitions]_vars

\* C28: at whatever interleaving, the row a school admin's delete removes
\* is, when the delete is written, a user of the admin's tenant who is no
\* superuser.
C28_AdminDeleteRemovesOwnTenantUser ==
    [][\A h \in Handlers :
          (/\ req[h].op = "DELETE /users/:id"
           /\ req[h].pc = "delete"
           /\ req'[h].pc = "reply"
           /\ req[h].user.role = "school_admin"
           /\ CallerAgreesWithRow(req[h], DB)
           /\ req[h].id \in DOMAIN users) =>
              /\ users[req[h].id].tenant_id = req[h].user.tenant_id
              /\ users[req[h].id].role # "superuser"]_vars

\* C29: under any interleaving, a competition update or delete that takes
\* effect on a row was issued by a superuser or by a school_admin whose
\* tenant_id is the row's tenant_id at the moment of the write; a guard
\* that passed the request because its lookup found no row never leads to
\* a write on a row by a student or by another tenant's school_admin.
C29_CompetitionWritesAreByOwners ==
    [][\A h \in Handlers :
          (/\ req[h].op \in {"PUT /competitions/:id",
                             "DELETE /competitions/:id"}
           /\ req[h].pc \in {"update", "delete"}
           /\ req'[h].pc = "reply"
           /\ req'[h].status < 400
           /\ req[h].id \in DOMAIN competitions) =>
              \/ req[h].user.role = "superuser"
              \/ /\ req[h].user.role = "school_admin"
                 /\ req[h].user.tenant_id =
                        competitions[req[h].id].tenant_id]_vars

\* C30: for a caller whose users row carries the token's role and
\* tenant_id, the guard of read_one allows the read of an existing
\* competition exactly when the select policies on competitions make the
\* row visible to that caller.
C30_GuardAgreesWithPolicies ==
    (/\ req.op = "GET /competitions/:id"
     /\ req.cred.kind = "jwt"
     /\ req.id \in DOMAIN competitions) =>
        LET row == [role |-> req.user.role, tenant_id |-> req.user.tenant_id]
        IN  /\ req.status \in {200, 403}
            /\ req.status = 200 <=>
                   CompetitionsSelectPolicies(row, req.id, DB)

\* C30 happens: a student has read a restricted competition of another
\* tenant that a grant opens to the student's school.
C30_Witness ==
    /\ req.op = "GET /competitions/:id"
    /\ req.user.role = "student"
    /\ req.id \in DOMAIN competitions
    /\ competitions[req.id].visibility = "restricted"
    /\ competitions[req.id].tenant_id # req.user.tenant_id
    /\ <<req.id, req.user.tenant_id>> \in grants
    /\ req.status = 200
    /\ CompetitionsSelectPolicies(
           [role |-> req.user.role, tenant_id |-> req.user.tenant_id],
           req.id, DB)

====
